---- MODULE Spec2Model ----
(***************************************************************************)
(* A model of convert.py: read_in (the HTML table extractor), clean_decimal *)
(* and main (glob, read every file, union the records, write the CSV).      *)
(*                                                                          *)
(* Text is a sequence of one-character strings, so that str.strip and       *)
(* str.replace are computed and not assumed.  A character outside ASCII is  *)
(* written by its code point ("U30C1").  Python's None is the value None.   *)
(* An HTML node is a record [name, s, contents]: a text node has the name   *)
(* "#text" and its characters in s; a tag has its children in contents.     *)
(***************************************************************************)
EXTENDS Integers, Sequences, FiniteSets, TLC

VARIABLES env, pc, pending, cur, openHandles, result, contents,
          outFile, outOpen, toWrite, err

vars == <<env, pc, pending, cur, openHandles, result, contents,
          outFile, outOpen, toWrite, err>>

\* ------------------------------------------------------------------ bounds

\* The most rows of a table in the single-file inputs.
MaxRows == 2

\* The most files glob discovers in the multi-file inputs.
MaxFiles == 2

\* ------------------------------------------------------------------ text

None == <<"None">>

IsSpace(c) == c \in {" ", "\t", "\n", "\r", "UA0"}

Digits == <<"0", "1", "2", "3", "4", "5", "6", "7", "8", "9">>

IsDigit(c) == \E i \in 1..Len(Digits) : Digits[i] = c

DigitVal(c) == (CHOOSE i \in 1..Len(Digits) : Digits[i] = c) - 1

AllDigits(s) == \A i \in 1..Len(s) : IsDigit(s[i])

RECURSIVE LStrip(_)
LStrip(s) == IF s # <<>> /\ IsSpace(Head(s)) THEN LStrip(Tail(s)) ELSE s

RECURSIVE RStrip(_)
RStrip(s) ==
    IF s # <<>> /\ IsSpace(s[Len(s)]) THEN RStrip(SubSeq(s, 1, Len(s) - 1)) ELSE s

\* str.strip()
Strip(s) == RStrip(LStrip(s))

\* str.replace(a, b) for a one-character a
RECURSIVE Replace(_, _, _)
Replace(s, a, b) ==
    IF s = <<>> THEN <<>>
    ELSE (IF Head(s) = a THEN b ELSE <<Head(s)>>) \o Replace(Tail(s), a, b)

\* int(s) of a sequence of digits
RECURSIVE NatOf(_)
NatOf(s) ==
    IF s = <<>> THEN 0 ELSE NatOf(SubSeq(s, 1, Len(s) - 1)) * 10 + DigitVal(s[Len(s)])

\* str(n) of a natural number
RECURSIVE StrOfNat(_)
StrOfNat(n) ==
    IF n < 10 THEN <<Digits[n + 1]>> ELSE StrOfNat(n \div 10) \o <<Digits[(n % 10) + 1]>>

RECURSIVE Zeros(_)
Zeros(n) == IF n <= 0 THEN <<>> ELSE <<"0">> \o Zeros(n - 1)

\* the position of the first c in s, 0 when there is none
FirstIndex(s, c) ==
    IF \E i \in 1..Len(s) : s[i] = c
    THEN CHOOSE i \in 1..Len(s) : s[i] = c /\ \A j \in 1..(i - 1) : s[j] # c
    ELSE 0

RECURSIVE StripLeadingZeros(_)
StripLeadingZeros(s) ==
    IF Len(s) > 1 /\ Head(s) = "0" THEN StripLeadingZeros(Tail(s)) ELSE s

RECURSIVE Pow10(_)
Pow10(n) == IF n <= 0 THEN 1 ELSE 10 * Pow10(n - 1)

\* ------------------------------------------------------------------ Decimal

\* Decimal(0)
DecimalZero == [sign |-> 0, int |-> <<"0">>, exp |-> 0]

\* Decimal(s): [sign] digits [. digits] or [sign] . digits; anything else in
\* the alphabet of the inputs raises InvalidOperation.  The coefficient keeps
\* its digits (leading zeros dropped) and the exponent the number of places.
Decimal(s) ==
    LET signed == s # <<>> /\ Head(s) \in {"-", "+"}
        body   == IF signed THEN Tail(s) ELSE s
        dot    == FirstIndex(body, ".")
        ip     == IF dot = 0 THEN body ELSE SubSeq(body, 1, dot - 1)
        fp     == IF dot = 0 THEN <<>> ELSE SubSeq(body, dot + 1, Len(body))
    IN  IF AllDigits(ip) /\ AllDigits(fp) /\ (ip \o fp) # <<>>
        THEN [err |-> "",
              val |-> [sign |-> IF signed /\ Head(s) = "-" THEN 1 ELSE 0,
                       int  |-> StripLeadingZeros(ip \o fp),
                       exp  |-> 0 - Len(fp)]]
        ELSE [err |-> "InvalidOperation", val |-> DecimalZero]

\* the number a Decimal denotes, in units of 10^(-places)
DecNum(d, places) ==
    (IF d.sign = 1 THEN -1 ELSE 1) * NatOf(d.int) * Pow10(places + d.exp)

MaxPlaces(a, b) == IF a.exp < b.exp THEN 0 - a.exp ELSE 0 - b.exp

\* Decimal.__eq__: by value, so 1000.0 = 1000.00 and -0 = 0
DecimalEq(a, b) == DecNum(a, MaxPlaces(a, b)) = DecNum(b, MaxPlaces(a, b))

\* Decimal * -1: the sign flips, coefficient and exponent stay
DecimalNegate(d) == [d EXCEPT !.sign = 1 - d.sign]

\* str(Decimal) for an exponent <= 0
DecimalStr(d) ==
    LET leftdigits == d.exp + Len(d.int)
        sgn        == IF d.sign = 1 THEN <<"-">> ELSE <<>>
    IN  IF leftdigits > -6
        THEN IF leftdigits <= 0
             THEN sgn \o <<"0", ".">> \o Zeros(0 - leftdigits) \o d.int
             ELSE IF leftdigits >= Len(d.int)
                  THEN sgn \o d.int
                  ELSE sgn \o SubSeq(d.int, 1, leftdigits) \o <<".">>
                           \o SubSeq(d.int, leftdigits + 1, Len(d.int))
        ELSE sgn \o <<d.int[1]>>
                 \o (IF Len(d.int) > 1 THEN <<".">> \o Tail(d.int) ELSE <<>>)
                 \o <<"E", "-">> \o StrOfNat(1 - leftdigits)

\* src/convert.py clean_decimal
clean_decimal(raw, allow_null) ==
    IF raw = None THEN [err |-> "AttributeError", val |-> DecimalZero]
    ELSE LET cleaned == Replace(Strip(raw), ",", <<>>)
         IN  IF cleaned # <<>> THEN Decimal(cleaned)
             ELSE IF allow_null THEN [err |-> "", val |-> DecimalZero]
             ELSE [err |-> "ValueError", val |-> DecimalZero]

\* ------------------------------------------------------------------ dates

IsLeap(y) == (y % 4 = 0 /\ y % 100 # 0) \/ y % 400 = 0

DaysInMonth(y, m) ==
    IF m = 2 THEN (IF IsLeap(y) THEN 29 ELSE 28)
    ELSE IF m \in {4, 6, 9, 11} THEN 30 ELSE 31

\* datetime.date.fromisoformat of YYYY-MM-DD
fromisoformat(s) ==
    LET shaped == Len(s) = 10 /\ s[5] = "-" /\ s[8] = "-"
                  /\ AllDigits(SubSeq(s, 1, 4)) /\ AllDigits(SubSeq(s, 6, 7))
                  /\ AllDigits(SubSeq(s, 9, 10))
        y == NatOf(SubSeq(s, 1, 4))
        m == NatOf(SubSeq(s, 6, 7))
        d == NatOf(SubSeq(s, 9, 10))
    IN  IF shaped /\ y >= 1 /\ m \in 1..12 /\ d >= 1 /\ d <= DaysInMonth(y, m)
        THEN [err |-> "", val |-> [year |-> y, month |-> m, day |-> d]]
        ELSE [err |-> "ValueError", val |-> [year |-> 0, month |-> 0, day |-> 0]]

Pad(s, n) == Zeros(n - Len(s)) \o s

\* str(datetime.date)
DateStr(d) ==
    Pad(StrOfNat(d.year), 4) \o <<"-">> \o Pad(StrOfNat(d.month), 2)
        \o <<"-">> \o Pad(StrOfNat(d.day), 2)

\* ------------------------------------------------------------------ HTML

Text(s) == [name |-> "#text", s |-> s, contents |-> <<>>]

Tag(name, kids) == [name |-> name, s |-> <<>>, contents |-> kids]

\* bs4 Tag.string: the text of an only child, looked up through only children;
\* None for a tag with no child or with several
RECURSIVE String(_)
String(node) ==
    IF node.name = "#text" THEN node.s
    ELSE IF Len(node.contents) # 1 THEN None
    ELSE String(node.contents[1])

\* the descendants named name of a sequence of nodes, in document order
RECURSIVE FindAllIn(_, _)
FindAllIn(nodes, name) ==
    IF nodes = <<>> THEN <<>>
    ELSE (IF Head(nodes).name = name THEN <<Head(nodes)>> ELSE <<>>)
         \o FindAllIn(Head(nodes).contents, name)
         \o FindAllIn(Tail(nodes), name)

\* bs4 Tag.find_all(name)
find_all(node, name) == FindAllIn(node.contents, name)

\* ------------------------------------------------------------------ Entry

\* the top-up literal of src/convert.py line 65
TOPUP == <<"U30C1", "U30E3", "U30FC", "U30B8">>

FieldNames ==
    <<"date", "memo", "amount", "fee", "atm_fee", "conversion_fee",
      "decision", "tx_id", "note">>

\* Entry.__eq__ of the frozen dataclass: field by field, Decimals by value
EntryEq(a, b) ==
    /\ a.date = b.date
    /\ a.memo = b.memo
    /\ DecimalEq(a.amount, b.amount)
    /\ DecimalEq(a.fee, b.fee)
    /\ DecimalEq(a.atm_fee, b.atm_fee)
    /\ DecimalEq(a.conversion_fee, b.conversion_fee)
    /\ a.decision = b.decision
    /\ a.tx_id = b.tx_id
    /\ a.note = b.note

\* a set that compares records by their text and not by Entry.__eq__
SetAddNoEq(entries, e) == entries \cup {e}

\* set.add: an element equal to one already held is not added
SetAdd(entries, e) ==
    IF \E x \in entries : EntryEq(x, e) THEN entries ELSE entries \cup {e}

\* ------------------------------------------------------------------ read_in

\* read_in without the test of line 54
SkipHeaderNever(row) == FALSE

\* line 54: a row with a th anywhere below it is skipped
SkipHeader(row) == find_all(row, "th") # <<>>

\* line 57: a row whose first td has no string, or a blank one, is skipped
SkipBlankDate(date) ==
    LET s == String(date) IN s = None \/ s = <<>> \/ Strip(s) = <<>>

\* read_in without lines 65-66
SignAdjustNever(memo, amount) == amount

\* lines 65-66
SignAdjust(memo, amount) == IF memo = TOPUP THEN DecimalNegate(amount) ELSE amount

\* tds[i].string.strip() of lines 63, 75-77 (i counts from 0)
CellText(tds, i) ==
    IF Len(tds) < i + 1 THEN [err |-> "IndexError", val |-> <<>>]
    ELSE IF String(tds[i + 1]) = None THEN [err |-> "AttributeError", val |-> <<>>]
    ELSE [err |-> "", val |-> Strip(String(tds[i + 1]))]

\* tds[2].find_all("div")[1].string.strip() of line 62
AmountRaw(tds) ==
    IF Len(tds) < 3 THEN [err |-> "IndexError", val |-> <<>>]
    ELSE LET divs == find_all(tds[3], "div")
         IN  IF Len(divs) < 2 THEN [err |-> "IndexError", val |-> <<>>]
             ELSE IF String(divs[2]) = None
                  THEN [err |-> "AttributeError", val |-> <<>>]
                  ELSE [err |-> "", val |-> Strip(String(divs[2]))]

\* clean_decimal(tds[i].string, allow_null=True) of lines 72-74
FeeCell(tds, i) ==
    IF Len(tds) < i + 1 THEN [err |-> "IndexError", val |-> DecimalZero]
    ELSE clean_decimal(String(tds[i + 1]), TRUE)

Raise(e, f) == [kind |-> "error", err |-> e, field |-> f]

\* lines 54-80, one pass of the loop body: the row is skipped (continue),
\* yields an Entry, or raises; the statements run in the order of the source
ProcessRow(row) ==
    IF SkipHeader(row) THEN [kind |-> "skip"]
    ELSE LET tds == find_all(row, "td") IN
    IF tds = <<>> THEN Raise("ValueError", "date")
    ELSE IF SkipBlankDate(tds[1]) THEN [kind |-> "skip"]
    ELSE LET date_raw   == Strip(String(tds[1]))
             amount_raw == AmountRaw(tds)
             memo       == CellText(tds, 1)
             amount     == clean_decimal(amount_raw.val, FALSE)
             date       == fromisoformat(Replace(date_raw, "/", <<"-">>))
             fee        == FeeCell(tds, 3)
             atm_fee    == FeeCell(tds, 4)
             conversion == FeeCell(tds, 5)
             decision   == CellText(tds, 6)
             tx_id      == CellText(tds, 7)
             note       == CellText(tds, 8)
         IN
    IF amount_raw.err # "" THEN Raise(amount_raw.err, "amount")
    ELSE IF memo.err # "" THEN Raise(memo.err, "memo")
    ELSE IF amount.err # "" THEN Raise(amount.err, "amount")
    ELSE IF date.err # "" THEN Raise(date.err, "date")
    ELSE IF fee.err # "" THEN Raise(fee.err, "fee")
    ELSE IF atm_fee.err # "" THEN Raise(atm_fee.err, "atm_fee")
    ELSE IF conversion.err # "" THEN Raise(conversion.err, "conversion_fee")
    ELSE IF decision.err # "" THEN Raise(decision.err, "decision")
    ELSE IF tx_id.err # "" THEN Raise(tx_id.err, "tx_id")
    ELSE IF note.err # "" THEN Raise(note.err, "note")
    ELSE [kind  |-> "entry",
          entry |-> [date           |-> date.val,
                     memo           |-> memo.val,
                     amount         |-> SignAdjust(memo.val, amount.val),
                     fee            |-> fee.val,
                     atm_fee        |-> atm_fee.val,
                     conversion_fee |-> conversion.val,
                     decision       |-> decision.val,
                     tx_id          |-> tx_id.val,
                     note           |-> note.val]]

\* lines 52-81: the loop over the rows; rows records what each pass did
RECURSIVE ReadRows(_, _, _, _)
ReadRows(trs, i, entries, rows) ==
    IF i > Len(trs)
    THEN [err |-> "", row |-> 0, field |-> "", entries |-> entries, rows |-> rows]
    ELSE LET r == ProcessRow(trs[i])
         IN  IF r.kind = "error"
             THEN [err |-> r.err, row |-> i, field |-> r.field,
                   entries |-> {}, rows |-> Append(rows, "error")]
             ELSE IF r.kind = "skip"
             THEN ReadRows(trs, i + 1, entries, Append(rows, "skip"))
             ELSE ReadRows(trs, i + 1, SetAdd(entries, r.entry), Append(rows, "entry"))

\* lines 45-81: soup.find("table") is None for a document without a table,
\* and None.find_all raises
read_in(nodes) ==
    LET tables == FindAllIn(nodes, "table")
    IN  IF tables = <<>>
        THEN [err |-> "AttributeError", row |-> 0, field |-> "table",
              entries |-> {}, rows |-> <<>>]
        ELSE ReadRows(find_all(tables[1], "tr"), 1, {}, <<>>)

\* ------------------------------------------------------------------ inputs

Td(kids) == Tag("td", kids)

TextTd(s) == Td(<<Text(s)>>)

Div(s) == Tag("div", <<Text(s)>>)

\* the amount cell of the export: the balance, then the amount
AmountTd(balance, amount) == Td(<<Div(balance), Text(<<"\n">>), Div(amount)>>)

\* a tr with a line break before every cell, as the saved pages have
RECURSIVE Spaced(_)
Spaced(cells) ==
    IF cells = <<>> THEN <<Text(<<"\n">>)>>
    ELSE <<Text(<<"\n">>), Head(cells)>> \o Spaced(Tail(cells))

Tr(cells) == Tag("tr", Spaced(cells))

sDate == <<"2", "0", "2", "3", "/", "0", "4", "/", "0", "1">>
sBadDate == <<"2", "0", "2", "3", "/", "0", "2", "/", "3", "0">>
sBalance == <<"5", ",", "0", "0", "0">>
sAmount == <<"1", ",", "0", "0", "0", ".", "0", "0">>
sAmountAlt == <<" ", "1", "0", "0", "0", ".", "0", " ">>
sFee == <<"1", ",", "2", "3", "4", ".", "5", "6">>
sPurchase == <<"U8CB7", "U3044", "U7269">>
sApproved == <<"U627F", "U8A8D">>
sBlank == <<" ">>

dateTd == TextTd(sDate)
amountTd == AmountTd(sBalance, sAmount)
blankTd == TextTd(sBlank)
emptyTd == Td(<<>>)
decisionTd == TextTd(sApproved)
idTd == TextTd(<<"1", "2", "3">>)

DataRow(date, memo, amount, fee, txid) ==
    Tr(<<date, memo, amount, fee, blankTd, blankTd, decisionTd, txid, blankTd>>)

RowTopUp == DataRow(dateTd, TextTd(TOPUP), amountTd, blankTd, idTd)
RowPurchase == DataRow(dateTd, TextTd(sPurchase), amountTd, blankTd, idTd)
\* equal to RowTopUp as an Entry: the same values written differently
RowTopUpAlt ==
    DataRow(dateTd, TextTd(<<" ">> \o TOPUP \o <<"\n">>),
            AmountTd(sBalance, sAmountAlt), TextTd(<<"0", ".", "0">>), idTd)
RowFees ==
    Tr(<<dateTd, TextTd(sPurchase), AmountTd(sBalance, <<"-", "2", "0">>),
         TextTd(sFee), TextTd(<<"1", "1", "0">>), TextTd(<<".", "5">>),
         decisionTd, TextTd(<<"1", "2", "4">>), blankTd>>)
RowTopUpFees ==
    Tr(<<dateTd, TextTd(TOPUP), amountTd,
         TextTd(sFee), TextTd(<<"1", "1", "0">>), TextTd(<<".", "5">>),
         decisionTd, TextTd(<<"1", "2", "5">>), blankTd>>)
\* a header row that also holds nine well-formed data cells
RowHeader ==
    Tr(<<Tag("th", <<Text(<<"d">>)>>), dateTd, TextTd(sPurchase), amountTd,
         blankTd, blankTd, blankTd, decisionTd, idTd, blankTd>>)
RowHeaderOnly == Tr(<<Tag("th", <<Text(<<"d">>)>>), Tag("th", <<>>)>>)
\* decorative rows: an empty first cell, a whitespace first cell
RowBlank == Tr(<<emptyTd>>)
RowWsDate == Tr(<<TextTd(<<"\n", " ">>), emptyTd>>)
\* the date split over two children of the cell
RowNestedDate ==
    DataRow(Td(<<Tag("b", <<Text(<<"2", "0", "2", "3">>)>>),
                 Text(<<"/", "0", "4", "/", "0", "1">>)>>),
            TextTd(sPurchase), amountTd, blankTd, idTd)
\* the date inside an only child of the cell
RowWrappedDate ==
    DataRow(Td(<<Tag("b", <<Text(sDate)>>)>>), TextTd(sPurchase), amountTd,
            blankTd, TextTd(<<"7">>))
RowEmptyFee == DataRow(dateTd, TextTd(sPurchase), amountTd, emptyTd, idTd)
RowWsTxid == DataRow(dateTd, TextTd(sPurchase), amountTd, blankTd, blankTd)
RowBlankAmount ==
    DataRow(dateTd, TextTd(sPurchase), AmountTd(sBalance, sBlank), blankTd, idTd)
RowBadAmount ==
    DataRow(dateTd, TextTd(sPurchase), AmountTd(sBalance, <<"x">>), blankTd, idTd)
RowOneDiv ==
    DataRow(dateTd, TextTd(sPurchase), Td(<<Div(sAmount)>>), blankTd, idTd)
RowShort == Tr(<<dateTd, TextTd(sPurchase), amountTd, blankTd, blankTd>>)
RowNoCells == Tr(<<>>)
RowBadDate == DataRow(TextTd(sBadDate), TextTd(sPurchase), amountTd, blankTd, idTd)
RowNestedMemo ==
    DataRow(dateTd, Td(<<Text(sPurchase), Tag("br", <<>>)>>), amountTd, blankTd, idTd)

Rows ==
    {RowTopUp, RowPurchase, RowTopUpAlt, RowFees, RowTopUpFees, RowHeader,
     RowHeaderOnly, RowBlank, RowWsDate, RowNestedDate, RowWrappedDate,
     RowEmptyFee, RowWsTxid, RowBlankAmount, RowBadAmount, RowOneDiv, RowShort,
     RowNoCells, RowBadDate, RowNestedMemo}

Html(nodes) == [kind |-> "html", nodes |-> nodes]

Table(rows) == Html(<<Tag("table", rows)>>)

\* a file open() refuses, a file whose bytes are not text of CHARSET
Unreadable == [kind |-> "unreadable", nodes |-> <<>>]
Undecodable == [kind |-> "undecodable", nodes |-> <<>>]
DocNoTable == Html(<<Tag("p", <<Text(sBlank)>>)>>)

\* one discovered file holding any table of up to MaxRows rows
SingleInputs ==
    {<<Table(rows)>> : rows \in UNION {[1..n -> Rows] : n \in 0..MaxRows}}

\* overlapping monthly exports, an export with no data row, a broken one
FileDocs ==
    <<Table(<<RowHeader, RowTopUp, RowBlank>>),
      Table(<<RowHeader, RowTopUp, RowPurchase>>),
      Table(<<RowTopUpAlt, RowFees>>),
      Table(<<RowHeader, RowBlank>>),
      Table(<<RowFees, RowShort>>),
      DocNoTable, Unreadable, Undecodable>>

\* up to MaxFiles discovered files, each one of FileDocs.  The files are a
\* set to main, and OpenFile takes them in any order, so one listing of each
\* collection of documents is enough.
MultiInputs ==
    UNION {{[i \in 1..n |-> FileDocs[ix[i]]] :
               ix \in {jx \in [1..n -> 1..Len(FileDocs)] :
                          \A i \in 1..(n - 1) : jx[i] <= jx[i + 1]}} :
           n \in 0..MaxFiles}

\* the output path before the run: absent, or a file of an earlier run
Absent == [exists |-> FALSE, lines |-> <<>>]
Stale == [exists |-> TRUE, lines |-> <<<<<<"o", "l", "d">>>>>>]

\* ------------------------------------------------------------------ main

NoResult == [err |-> "", row |-> 0, field |-> "", entries |-> {}, rows |-> <<>>]

\* line 98, contents.update(...): set.add of every element
RECURSIVE update(_, _)
\* contents = read_in(fd) in place of contents.update
updateReplace(held, new) == new

update(held, new) ==
    IF new = {} THEN held
    ELSE LET e == CHOOSE x \in new : TRUE
         IN  update(SetAdd(held, e), new \ {e})

\* lines 108-114: the row csv.DictWriter writes for an Entry, field by field
\* in the order of the dataclass, each value through str()
CsvRow(e) ==
    <<DateStr(e.date), e.memo, DecimalStr(e.amount), DecimalStr(e.fee),
      DecimalStr(e.atm_fee), DecimalStr(e.conversion_fee), e.decision,
      e.tx_id, e.note>>

\* line 112, writeheader: the field names of the first record
CsvHeader == [i \in 1..Len(FieldNames) |-> <<FieldNames[i]>>]

Init ==
    /\ env \in {[files |-> fs, output0 |-> Absent] : fs \in SingleInputs}
               \cup {[files |-> fs, output0 |-> o] :
                        fs \in MultiInputs, o \in {Absent, Stale}}
    /\ pc = "start"
    /\ pending = {}
    /\ cur = 0
    /\ openHandles = {}
    /\ result = NoResult
    /\ contents = {}
    /\ outFile = env.output0
    /\ outOpen = FALSE
    /\ toWrite = {}
    /\ err = ""

\* a main that opens the output before it reads the input
GlobOpensOutput ==
    /\ pc = "start"
    /\ pending' = 1..Len(env.files)
    /\ pc' = "loop"
    /\ outFile' = [exists |-> TRUE, lines |-> <<>>]
    /\ UNCHANGED <<env, cur, openHandles, result, contents, outOpen, toWrite, err>>

\* lines 93-95: glob lists the files; the order it yields them in is any
Glob ==
    /\ pc = "start"
    /\ pending' = 1..Len(env.files)
    /\ pc' = "loop"
    /\ UNCHANGED <<env, cur, openHandles, result, contents, outFile, outOpen,
                   toWrite, err>>

\* line 97: open(file, encoding=CHARSET) of the next file of the glob
OpenFile(f) ==
    /\ pc = "loop"
    /\ f \in pending
    /\ pending' = pending \ {f}
    /\ IF env.files[f].kind = "unreadable"
       THEN /\ pc' = "failed"
            /\ err' = "OSError"
            /\ UNCHANGED <<cur, openHandles>>
       ELSE /\ pc' = "opened"
            /\ cur' = f
            /\ openHandles' = openHandles \cup {f}
            /\ err' = err
    /\ UNCHANGED <<env, result, contents, outFile, outOpen, toWrite>>

\* line 98, inside the with block: fd.read(), read_in, contents.update
ReadFile ==
    /\ pc = "opened"
    /\ result' = IF env.files[cur].kind = "undecodable"
                 THEN [NoResult EXCEPT !.err = "UnicodeDecodeError", !.field = "read"]
                 ELSE read_in(env.files[cur].nodes)
    /\ contents' = IF result'.err = "" THEN update(contents, result'.entries)
                   ELSE contents
    /\ pc' = "with_exit"
    /\ UNCHANGED <<env, pending, cur, openHandles, outFile, outOpen, toWrite, err>>

\* open and close without the with block: an exception skips the close
CloseFileOnSuccessOnly ==
    /\ pc = "with_exit"
    /\ IF result.err # ""
       THEN pc' = "failed" /\ err' = result.err /\ UNCHANGED <<openHandles, cur>>
       ELSE pc' = "loop" /\ err' = err /\ openHandles' = openHandles \ {cur}
            /\ cur' = 0
    /\ UNCHANGED <<env, pending, result, contents, outFile, outOpen, toWrite>>

\* line 97, leaving the with block: the handle is closed, then an exception
\* raised inside goes on out of main
CloseFile ==
    /\ pc = "with_exit"
    /\ openHandles' = openHandles \ {cur}
    /\ cur' = 0
    /\ IF result.err # ""
       THEN pc' = "failed" /\ err' = result.err
       ELSE pc' = "loop" /\ err' = err
    /\ UNCHANGED <<env, pending, result, contents, outFile, outOpen, toWrite>>

\* main without the return of lines 100-102
AfterLoopNoCheck ==
    /\ pc = "loop"
    /\ pending = {}
    /\ pc' = "header"
    /\ outFile' = [exists |-> TRUE, lines |-> <<>>]
    /\ outOpen' = TRUE
    /\ UNCHANGED <<env, pending, cur, openHandles, result, contents, toWrite, err>>

\* lines 100-107, after the loop: return when nothing was read, else
\* open(args.output, 'w'), which creates or truncates the file
AfterLoop ==
    /\ pc = "loop"
    /\ pending = {}
    /\ IF contents = {}
       THEN pc' = "done" /\ UNCHANGED <<outFile, outOpen>>
       ELSE /\ pc' = "header"
            /\ outFile' = [exists |-> TRUE, lines |-> <<>>]
            /\ outOpen' = TRUE
    /\ UNCHANGED <<env, pending, cur, openHandles, result, contents, toWrite, err>>

\* lines 108-112: the writer and its header
WriteHeader ==
    /\ pc = "header"
    /\ outFile' = [outFile EXCEPT !.lines = Append(@, CsvHeader)]
    /\ toWrite' = contents
    /\ pc' = "rows"
    /\ UNCHANGED <<env, pending, cur, openHandles, result, contents, outOpen, err>>

\* lines 113-114: one record of the set, in the set's order, which is any
WriteRow(e) ==
    /\ pc = "rows"
    /\ e \in toWrite
    /\ outFile' = [outFile EXCEPT !.lines = Append(@, CsvRow(e))]
    /\ toWrite' = toWrite \ {e}
    /\ UNCHANGED <<env, pc, pending, cur, openHandles, result, contents, outOpen, err>>

\* line 107, leaving the with block of the output
CloseOutput ==
    /\ pc = "rows"
    /\ toWrite = {}
    /\ outOpen' = FALSE
    /\ pc' = "done"
    /\ UNCHANGED <<env, pending, cur, openHandles, result, contents, outFile,
                   toWrite, err>>

Next ==
    \/ Glob
    \/ \E f \in pending : OpenFile(f)
    \/ ReadFile
    \/ CloseFile
    \/ AfterLoop
    \/ WriteHeader
    \/ \E e \in toWrite : WriteRow(e)
    \/ CloseOutput

Spec == Init /\ [][Next]_vars

\* ------------------------------------------------------------------ claims

\* all the text below a sequence of nodes, in document order
RECURSIVE TextOf(_)
TextOf(nodes) ==
    IF nodes = <<>> THEN <<>>
    ELSE (IF Head(nodes).name = "#text" THEN Head(nodes).s
          ELSE TextOf(Head(nodes).contents))
         \o TextOf(Tail(nodes))

\* a cell that shows nothing: no text below it, or whitespace only
BlankCell(td) == Strip(TextOf(td.contents)) = <<>>

\* read_in has just returned or raised on the rows of the current file
Returned ==
    /\ pc = "with_exit"
    /\ env.files[cur].kind = "html"
    /\ FindAllIn(env.files[cur].nodes, "table") # <<>>

TableRows == find_all(FindAllIn(env.files[cur].nodes, "table")[1], "tr")

FileFails(f) ==
    \/ env.files[f].kind # "html"
    \/ read_in(env.files[f].nodes).err # ""

\* the union of the record sets read_in returns for the discovered files
AllRecords ==
    UNION {read_in(env.files[f].nodes).entries : f \in 1..Len(env.files)}

DataLines == 2..Len(outFile.lines)

\* C1: when main has written the CSV, every distinct record of the union of
\* the per-file record sets has exactly one data row, every data row is the
\* row of such a record, and the first line is the header.
C1_OneRowPerRecord ==
    pc = "done" =>
        LET all == AllRecords
            rowsOf(e) == {i \in DataLines :
                             \E e2 \in all :
                                 outFile.lines[i] = CsvRow(e2) /\ EntryEq(e, e2)}
        IN  all # {} =>
                /\ outFile.exists
                /\ Len(outFile.lines) >= 1
                /\ outFile.lines[1] = CsvHeader
                /\ \A e \in all : Cardinality(rowsOf(e)) = 1
                /\ \A i \in DataLines : \E e \in all : outFile.lines[i] = CsvRow(e)

\* two files share a record, one of them holds a second one, and the CSV has
\* the header and two data rows
C1_Witness ==
    /\ pc = "done"
    /\ Len(env.files) = 2
    /\ Len(outFile.lines) = 3
    /\ \E a \in read_in(env.files[1].nodes).entries :
         \E b \in read_in(env.files[2].nodes).entries : a # b /\ EntryEq(a, b)

\* C2: every row read_in turns into a record has a record with the row's
\* memo whose amount is minus the parsed amount for the top-up memo and the
\* parsed amount for any other, and whose three fees are the parsed fees.
C2_SignRule ==
    (Returned /\ result.err = "") =>
        LET trs == TableRows IN
        \A i \in 1..Len(result.rows) :
            result.rows[i] = "entry" =>
                LET tds  == find_all(trs[i], "td")
                    memo == Strip(String(tds[2]))
                    raw  == clean_decimal(String(find_all(tds[3], "div")[2]), FALSE).val
                IN  \E e \in result.entries :
                        /\ e.memo = memo
                        /\ e.tx_id = Strip(String(tds[8]))
                        /\ LET p == MaxPlaces(e.amount, raw)
                           IN  IF memo = TOPUP
                               THEN DecNum(e.amount, p) = 0 - DecNum(raw, p)
                               ELSE DecNum(e.amount, p) = DecNum(raw, p)
                        /\ DecimalEq(e.fee, clean_decimal(String(tds[4]), TRUE).val)
                        /\ DecimalEq(e.atm_fee, clean_decimal(String(tds[5]), TRUE).val)
                        /\ DecimalEq(e.conversion_fee,
                                     clean_decimal(String(tds[6]), TRUE).val)

\* a top-up with a fee and a purchase read from one document
C2_Witness ==
    /\ Returned
    /\ result.err = ""
    /\ \E e \in result.entries :
          e.memo = TOPUP /\ e.amount.sign = 1 /\ e.fee.sign = 0 /\ e.fee.int # <<"0">>
    /\ \E e \in result.entries : e.memo # TOPUP /\ e.amount.sign = 0

FeeFields == {"fee", "atm_fee", "conversion_fee"}

FeeColumn(f) == IF f = "fee" THEN 4 ELSE IF f = "atm_fee" THEN 5 ELSE 6

\* C3: a blank fee, atm_fee or conversion_fee cell never makes read_in raise:
\* when read_in raises at a fee field of a row, that row's cell is not blank.
C3_BlankFeeNeverRaises ==
    (Returned /\ result.err # "" /\ result.field \in FeeFields) =>
        LET tds == find_all(TableRows[result.row], "td")
        IN  Len(tds) >= FeeColumn(result.field)
                => ~BlankCell(tds[FeeColumn(result.field)])

\* C4: a run that ends on an error leaves the output path as it was before
\* the run, and not open.
C4_NoPartialOutput ==
    pc = "failed" => (outFile = env.output0 /\ ~outOpen)

\* a later file fails after an earlier one yielded records, with an output
\* file of an earlier run on disk
C4_Witness ==
    /\ pc = "failed"
    /\ contents # {}
    /\ env.output0.exists
    /\ outFile = env.output0

\* every discovered file is readable, has a table, and holds only header rows
\* and rows whose first cell is blank
NoDataRows ==
    \A f \in 1..Len(env.files) :
        /\ env.files[f].kind = "html"
        /\ FindAllIn(env.files[f].nodes, "table") # <<>>
        /\ LET trs == find_all(FindAllIn(env.files[f].nodes, "table")[1], "tr")
           IN  \A i \in 1..Len(trs) :
                   \/ find_all(trs[i], "th") # <<>>
                   \/ /\ find_all(trs[i], "td") # <<>>
                      /\ BlankCell(find_all(trs[i], "td")[1])

\* C5: with no discovered file, or only files without a valid data row, main
\* never fails, never opens the output and leaves the output path as it was:
\* a state in which main has failed, holds a record, has the output open or
\* has changed the output path is not a state of such a run.
C5_EmptyInputNoOutput ==
    (\/ pc \in {"failed", "header", "rows"}
     \/ outOpen
     \/ outFile # env.output0
     \/ contents # {}) => ~NoDataRows

\* a file with a header row and a blank row was read and main has returned
C5_Witness ==
    /\ NoDataRows
    /\ pc = "done"
    /\ \E f \in 1..Len(env.files) :
          Len(find_all(FindAllIn(env.files[f].nodes, "table")[1], "tr")) = 2

\* C6: a row with a th below it is skipped by read_in: it yields no record
\* and raises nothing, whatever its td cells hold, so the records are at most
\* as many as the rows without a th.
C6_HeaderRowSkipped ==
    Returned =>
        LET trs == TableRows
        IN  /\ \A i \in 1..Len(result.rows) :
                  find_all(trs[i], "th") # <<>> => result.rows[i] = "skip"
            /\ Cardinality(result.entries) <=
                  Cardinality({i \in 1..Len(trs) : find_all(trs[i], "th") = <<>>})

\* a header row with nine well-formed data cells was skipped beside a row
\* that became a record
C6_Witness ==
    /\ Returned
    /\ result.err = ""
    /\ \E i \in 1..Len(result.rows) :
          /\ find_all(TableRows[i], "th") # <<>>
          /\ Len(find_all(TableRows[i], "td")) = 9
          /\ result.rows[i] = "skip"
    /\ \E j \in 1..Len(result.rows) : result.rows[j] = "entry"

\* C7: a row read_in turns into a record has neither a blank amount nor a
\* blank transaction identifier.
C7_BlankAmountOrIdRaises ==
    Returned =>
        \A i \in 1..Len(result.rows) :
            result.rows[i] = "entry" =>
                LET tds == find_all(TableRows[i], "td")
                IN  /\ ~BlankCell(find_all(tds[3], "div")[2])
                    /\ ~BlankCell(tds[8])

\* the written records as text: the data lines of the CSV
WrittenRows == {outFile.lines[i] : i \in DataLines}

\* C8: the outcome of main is decided by the discovered files alone, whatever
\* order glob yields them in: main fails exactly when some file fails, and
\* otherwise the records written are the distinct records of all the files.
C8_OrderIndependent ==
    /\ pc = "failed" => \E f \in 1..Len(env.files) : FileFails(f)
    /\ pc = "done" =>
          LET all     == AllRecords
              written == WrittenRows
          IN  /\ \A f \in 1..Len(env.files) : ~FileFails(f)
              /\ \A e \in all :
                    \E e2 \in all : EntryEq(e, e2) /\ CsvRow(e2) \in written
              /\ all # {} => \A r \in written : \E e \in all : r = CsvRow(e)

\* two files with different record sets were read, in either order
C8_Witness ==
    /\ pc = "done"
    /\ Len(env.files) = 2
    /\ read_in(env.files[1].nodes).entries # {}
    /\ read_in(env.files[2].nodes).entries # {}
    /\ \E e \in read_in(env.files[2].nodes).entries :
          \A x \in read_in(env.files[1].nodes).entries : ~EntryEq(x, e)
    /\ Cardinality(WrittenRows) = Cardinality(contents)

\* a row whose column lookup fails: no header cell, a first cell that shows
\* something (or no cell at all), and fewer than nine cells, fewer than two
\* div elements in the amount cell, or a cell whose text is there but is not
\* its string
WrongNesting(node) == String(node) = None /\ ~BlankCell(node)

LookupFailure(row) ==
    LET tds == find_all(row, "td")
    IN  /\ find_all(row, "th") = <<>>
        /\ (tds # <<>> => ~BlankCell(tds[1]))
        /\ \/ Len(tds) < 9
           \/ Len(find_all(tds[3], "div")) < 2
           \/ WrongNesting(find_all(tds[3], "div")[2])
           \/ \E k \in {1, 2, 4, 5, 6, 7, 8, 9} : WrongNesting(tds[k])

\* C9: a row with a column lookup failure makes read_in raise: read_in never
\* passes over such a row.
C9_LookupFailureRaises ==
    Returned =>
        \A i \in 1..Len(result.rows) :
            LookupFailure(TableRows[i]) => result.rows[i] = "error"

\* C10: at most one input file is open at any time, none is open between two
\* files, after the loop or after main has ended (also on an error), and the
\* output is open only once every input file has been read and closed.
C10_OneHandleAtATime ==
    /\ Cardinality(openHandles) <= 1
    /\ openHandles # {} => openHandles = {cur}
    /\ pc \in {"start", "loop", "header", "rows", "done", "failed"}
          => openHandles = {}
    /\ outOpen => (pending = {} /\ openHandles = {})
    /\ outFile # env.output0 => (pending = {} /\ openHandles = {})

\* the second of two files raised in read_in, and its handle is closed
C10_Witness ==
    /\ pc = "failed"
    /\ result.err # ""
    /\ result.row > 0
    /\ Len(env.files) = 2
    /\ pending = {}
    /\ openHandles = {}

====
